---------------------------- MODULE Spec2Model ----------------------------
(***************************************************************************)
(* A model of lsi's path traversal engine (src/lsi.go): splitPath,         *)
(* makeEntry, mode and walk/walkRecursive, run against a small model of a  *)
(* POSIX filesystem.  Strings are sequences of one-character strings, so   *)
(* that cleaning, joining and splitting paths are computed, not assumed.   *)
(***************************************************************************)
EXTENDS Integers, Sequences, FiniteSets, TLC

(***************************************************************************)
(* Bounds of the model.                                                    *)
(***************************************************************************)
\* The visitor answers follow = true only for Records above this depth.
MaxLevel == 3
\* Symbolic links the kernel expands in one lookup before it fails with ELOOP.
MaxSymlinks == 3
\* The longest path, in characters, of the paths splitPath is called with
\* on its own (the paths of its tests are there whatever their length).
MaxPathLen == 6
\* The most file-type and attribute bits set at once in the modes that mode
\* is called with on its own (permission, set-id and sticky bits are free).
MaxTypeBits == 1
\* The deepest level of the entries fmtName and print are called with on
\* their own.
MaxFmtLevel == 3
\* The most paths run is given on its command line.
MaxPaths == 2

(***************************************************************************)
(* Strings and the path/filepath functions the walker calls (Unix).        *)
(***************************************************************************)
Separator == "/"
Sep == <<Separator>>
Dot == <<".">>
DotDot == <<".", ".">>
Empty == <<>>

Last(s) == s[Len(s)]
Front(s) == SubSeq(s, 1, Len(s) - 1)

\* Split with a slip: every piece keeps the separator that ends it.
RECURSIVE SplitAfter(_)
SplitAfter(s) ==
    IF \A k \in 1..Len(s) : s[k] # Separator
    THEN <<s>>
    ELSE LET k == CHOOSE k \in 1..Len(s) :
                      /\ s[k] = Separator
                      /\ \A j \in 1..(k - 1) : s[j] # Separator
         IN  <<SubSeq(s, 1, k)>> \o SplitAfter(SubSeq(s, k + 1, Len(s)))

\* strings.Split(s, "/"): every separator ends a piece, empty pieces are kept.
RECURSIVE Split(_)
Split(s) ==
    IF \A k \in 1..Len(s) : s[k] # Separator
    THEN <<s>>
    ELSE LET k == CHOOSE k \in 1..Len(s) :
                      /\ s[k] = Separator
                      /\ \A j \in 1..(k - 1) : s[j] # Separator
         IN  <<SubSeq(s, 1, k - 1)>> \o Split(SubSeq(s, k + 1, Len(s)))

\* strings.Join(pieces, "/")
RECURSIVE JoinSep(_)
JoinSep(pieces) ==
    IF pieces = <<>> THEN Empty
    ELSE IF Len(pieces) = 1 THEN pieces[1]
    ELSE pieces[1] \o Sep \o JoinSep(Tail(pieces))

\* The pass of filepath.Clean over the pieces of a path: "" and "." are
\* dropped, ".." removes the piece before it, is dropped at the root and is
\* kept at the front of a relative path.
RECURSIVE CleanSegs(_, _, _)
CleanSegs(segs, out, rooted) ==
    IF segs = <<>> THEN out
    ELSE LET s == Head(segs)
             r == Tail(segs)
         IN  IF s = Empty \/ s = Dot THEN CleanSegs(r, out, rooted)
             ELSE IF s = DotDot
                  THEN IF out # <<>> /\ Last(out) # DotDot
                       THEN CleanSegs(r, Front(out), rooted)
                       ELSE IF rooted THEN CleanSegs(r, out, rooted)
                            ELSE CleanSegs(r, Append(out, s), rooted)
                  ELSE CleanSegs(r, Append(out, s), rooted)

\* filepath.IsAbs
IsAbs(path) == path # Empty /\ path[1] = Separator

\* filepath.Clean
Clean(path) ==
    IF path = Empty THEN Dot
    ELSE LET segs == CleanSegs(Split(path), <<>>, IsAbs(path))
         IN  IF IsAbs(path) THEN Sep \o JoinSep(segs)
             ELSE IF segs = <<>> THEN Dot ELSE JoinSep(segs)

\* filepath.Join: empty elements are ignored, the rest is joined and cleaned;
\* the join of nothing is the empty string.
Join(elems) ==
    LET ne == SelectSeq(elems, LAMBDA x : x # Empty)
    IN  IF ne = <<>> THEN Empty ELSE Clean(JoinSep(ne))

\* filepath.VolumeName: always empty on systems without drive letters.
VolumeName(path) == Empty

\* filepath.Dir: the path up to its last separator, cleaned.
Dir(path) ==
    LET seps == {k \in 1..Len(path) : path[k] = Separator}
    IN  IF seps = {} THEN Dot
        ELSE Clean(SubSeq(path, 1, CHOOSE k \in seps : \A j \in seps : j <= k))

(***************************************************************************)
(* splitPath                                                               *)
(***************************************************************************)
\* splitPath with a slip: the root element is not put in front.
splitPathNoRoot(p) ==
    LET path == Clean(p)
        vol == VolumeName(path)
    IN  IF IsAbs(path)
        THEN [elem |-> IF Len(path) > 1
                       THEN Split(SubSeq(path, 2, Len(path))) ELSE <<>>,
              volume |-> vol]
        ELSE [elem |-> IF Len(path) > 0 THEN Split(path) ELSE <<>>,
              volume |-> vol]

\* splitPath with a slip: the rest of an absolute path is cut at start - 1.
splitPathFromStart(p) ==
    LET path == Clean(p)
        vol == VolumeName(path)
    IN  IF IsAbs(path)
        THEN [elem |-> IF Len(path) > 1 THEN <<Sep>> \o Split(path) ELSE <<Sep>>,
              volume |-> vol]
        ELSE [elem |-> IF Len(path) > 0 THEN Split(path) ELSE <<>>,
              volume |-> vol]

\* splitPath with a slip: a relative path of one character has no element.
splitPathShort(p) ==
    LET path == Clean(p)
        vol == VolumeName(path)
    IN  IF IsAbs(path)
        THEN [elem |-> IF Len(path) > 1
                       THEN <<Sep>> \o Split(SubSeq(path, 2, Len(path)))
                       ELSE <<Sep>>,
              volume |-> vol]
        ELSE [elem |-> IF Len(path) > 1 THEN Split(path) ELSE <<>>,
              volume |-> vol]

splitPath(p) ==
    LET path == Clean(p)
        vol == VolumeName(path)
    IN  IF IsAbs(path)
        THEN LET root == IF vol # Empty THEN vol \o Sep ELSE Sep
                 start == IF vol # Empty THEN Len(vol) + 1 ELSE 1
             IN  [elem |-> IF Len(path) > start
                           THEN <<root>> \o Split(SubSeq(path, start + 1, Len(path)))
                           ELSE <<root>>,
                  volume |-> vol]
        ELSE LET start == IF vol # Empty THEN Len(vol) ELSE 0
             IN  [elem |-> IF Len(path) > start THEN Split(path) ELSE <<>>,
                  volume |-> vol]

(***************************************************************************)
(* mode: a file mode is the set of the bit positions that are set in the   *)
(* 32-bit fs.FileMode.                                                     *)
(***************************************************************************)
ModeDir == 31
ModeAppend == 30
ModeExclusive == 29
ModeTemporary == 28
ModeSymlink == 27
ModeDevice == 26
ModeNamedPipe == 25
ModeSocket == 24
ModeSetuid == 23
ModeSetgid == 22
ModeCharDevice == 21
ModeSticky == 20
ModeIrregular == 19

\* unicode.ToUpper on the two letters mode passes to upperIf
ToUpper(c) == IF c = "s" THEN "S" ELSE IF c = "t" THEN "T" ELSE c

upperIf(c, upper) == IF upper THEN ToUpper(c) ELSE c

\* const attr = "d---lbps--c-?"
attr == <<"d", "-", "-", "-", "l", "b", "p", "s", "-", "-", "c", "-", "?">>

\* typeRune with a slip: the first i that matches wins, not the last.
typeRuneFirst(m) ==
    LET hits == {i \in 0..(Len(attr) - 1) : attr[i + 1] # "-" /\ (32 - 1 - i) \in m}
    IN  IF hits = {} THEN "-"
        ELSE attr[(CHOOSE i \in hits : \A j \in hits : i <= j) + 1]

\* The leading rune after the loop over attr: the last i whose rune is not
\* '-' and whose bit 32-1-i is set wins.
typeRune(m) ==
    LET hits == {i \in 0..(Len(attr) - 1) : attr[i + 1] # "-" /\ (32 - 1 - i) \in m}
    IN  IF hits = {} THEN "-"
        ELSE attr[(CHOOSE i \in hits : \A j \in hits : j <= i) + 1]

\* mode with a slip: the loop over the permission bits starts one bit off.
modeShifted(m) ==
    LET full == <<"-", "r", "w", "x", "r", "w", "x", "r", "w", "x">>
        perm == [k \in 1..10 |->
                    IF k = 1 THEN full[1]
                    ELSE IF (9 - k) \in m THEN full[k] ELSE "-"]
        s0 == [perm EXCEPT ![1] = typeRune(m)]
        s1 == IF ModeSetuid \in m
              THEN [s0 EXCEPT ![4] = upperIf("s", 8 \notin m)] ELSE s0
        s2 == IF ModeSetgid \in m
              THEN [s1 EXCEPT ![7] = upperIf("s", 5 \notin m)] ELSE s1
        s3 == IF ModeSticky \in m
              THEN [s2 EXCEPT ![10] = upperIf("t", 2 \notin m)] ELSE s2
    IN  IF m \cap {ModeAppend, ModeExclusive, ModeTemporary} # {}
        THEN Append(s3, "+") ELSE s3

\* mode with a slip: only the append-only bit gives the trailing '+'.
modeAppendOnly(m) ==
    LET full == <<"-", "r", "w", "x", "r", "w", "x", "r", "w", "x">>
        perm == [k \in 1..10 |->
                    IF k = 1 THEN full[1]
                    ELSE IF (10 - k) \in m THEN full[k] ELSE "-"]
        s0 == [perm EXCEPT ![1] = typeRune(m)]
        s1 == IF ModeSetuid \in m
              THEN [s0 EXCEPT ![4] = upperIf("s", 8 \notin m)] ELSE s0
        s2 == IF ModeSetgid \in m
              THEN [s1 EXCEPT ![7] = upperIf("s", 5 \notin m)] ELSE s1
        s3 == IF ModeSticky \in m
              THEN [s2 EXCEPT ![10] = upperIf("t", 2 \notin m)] ELSE s2
    IN  IF ModeAppend \in m
        THEN Append(s3, "+") ELSE s3

mode(m) ==
    LET full == <<"-", "r", "w", "x", "r", "w", "x", "r", "w", "x">>
        \* s[len(s)-i] = '-' when bit i-1 is clear, for i = 9..1
        perm == [k \in 1..10 |->
                    IF k = 1 THEN full[1]
                    ELSE IF (10 - k) \in m THEN full[k] ELSE "-"]
        s0 == [perm EXCEPT ![1] = typeRune(m)]
        s1 == IF ModeSetuid \in m
              THEN [s0 EXCEPT ![4] = upperIf("s", 8 \notin m)] ELSE s0
        s2 == IF ModeSetgid \in m
              THEN [s1 EXCEPT ![7] = upperIf("s", 5 \notin m)] ELSE s1
        s3 == IF ModeSticky \in m
              THEN [s2 EXCEPT ![10] = upperIf("t", 2 \notin m)] ELSE s2
    IN  IF m \cap {ModeAppend, ModeExclusive, ModeTemporary} # {}
        THEN Append(s3, "+") ELSE s3


(***************************************************************************)
(* Error values.  nil is NoErr; the errors of the context package carry no *)
(* path, the errors of os and os/user name the operation and its operand.  *)
(***************************************************************************)
Error(op, path, err) == [op |-> op, path |-> path, err |-> err]
NoErr == Error("", Empty, "nil")
Canceled == Error("context", Empty, "Canceled")
DeadlineExceeded == Error("context", Empty, "DeadlineExceeded")
\* An error the visitor makes up itself.
VisitorErr == Error("visitor", Empty, "abort")

ContextErrors == {Canceled, DeadlineExceeded}

(***************************************************************************)
(* The filesystem.  A file is named by its real path, the sequence of      *)
(* directory entry names that leads to it from the root directory; the     *)
(* filesystem maps the real paths that exist to their inodes.              *)
(***************************************************************************)
n_tmp == <<"t", "m", "p">>
n_a == <<"a">>
n_b == <<"b">>
n_link == <<"l", "i", "n", "k">>
n_target == <<"t", "a", "r", "g", "e", "t">>
n_missing == <<"m", "i", "s", "s">>
n_usr == <<"u", "s", "r">>
n_bin == <<"b", "i", "n">>
n_x == <<"x">>
n_y == <<"y">>
n_mnt == <<"m", "n", "t">>
n_abs == <<"a", "b", "s">>
n_l1 == <<"l", "1">>
n_l2 == <<"l", "2">>
n_nu == <<"n", "u">>
n_ng == <<"n", "g">>
n_ul == <<"u", "l">>
n_rl == <<"r", "l">>
n_u4 == <<"u", "4">>
n_la == <<"l", "a">>

Perm0755 == {8, 7, 6, 5, 3, 2, 0}
Perm0644 == {8, 7, 5, 2}
Perm0777 == 0..8

Inode(type, target, perm, dev, ino, size, uid, gid, rlerr) ==
    [type |-> type, target |-> target,
     mode |-> perm \cup (IF type = "dir" THEN {ModeDir}
                         ELSE IF type = "link" THEN {ModeSymlink} ELSE {}),
     dev |-> dev, ino |-> ino, size |-> size, uid |-> uid, gid |-> gid,
     rlerr |-> rlerr]

DirNode(dev, ino) == Inode("dir", Empty, Perm0755, dev, ino, 4096, 0, 0, "nil")
FileNode(ino, uid, gid) == Inode("file", Empty, Perm0644, 1, ino, 7, uid, gid, "nil")
LinkNode(ino, target, uid) ==
    Inode("link", target, Perm0777, 1, ino, Len(target), uid, 0, "nil")

\*  /            /tmp/a/link -> ../b/target      /bin -> usr/bin
\*  /tmp         /tmp/b/target                   /usr/bin/x -> ../y
\*  /mnt (other device)                          /usr/y, /y
\*  /tmp/abs -> /usr/y       /tmp/l1 -> l2       /tmp/l2 -> l1
\*  /tmp/nu (owner without a name)   /tmp/ng (group without a name)
\*  /tmp/ul -> b (link whose owner has no name)
\*  /tmp/rl (link whose target cannot be read)
\*  /tmp/u4 -> rl/miss/x (link whose owner has no name)
\*  /tmp/a/la -> ../abs (relative link to an absolute link)
FileSystem ==
       (<<>> :> DirNode(1, 2))
    @@ (<<n_tmp>> :> DirNode(1, 3))
    @@ (<<n_tmp, n_a>> :> DirNode(1, 4))
    @@ (<<n_tmp, n_a, n_link>> :> LinkNode(5, DotDot \o Sep \o n_b \o Sep \o n_target, 1000))
    @@ (<<n_tmp, n_b>> :> DirNode(1, 6))
    @@ (<<n_tmp, n_b, n_target>> :> FileNode(7, 1000, 100))
    @@ (<<n_usr>> :> DirNode(1, 8))
    @@ (<<n_usr, n_bin>> :> DirNode(1, 9))
    @@ (<<n_usr, n_bin, n_x>> :> LinkNode(10, DotDot \o Sep \o n_y, 0))
    @@ (<<n_usr, n_y>> :> FileNode(11, 0, 0))
    @@ (<<n_y>> :> FileNode(12, 0, 0))
    @@ (<<n_bin>> :> LinkNode(13, n_usr \o Sep \o n_bin, 0))
    @@ (<<n_mnt>> :> DirNode(2, 2))
    @@ (<<n_tmp, n_abs>> :> LinkNode(14, Sep \o n_usr \o Sep \o n_y, 1000))
    @@ (<<n_tmp, n_l1>> :> LinkNode(15, n_l2, 1000))
    @@ (<<n_tmp, n_l2>> :> LinkNode(16, n_l1, 1000))
    @@ (<<n_tmp, n_nu>> :> FileNode(17, 99, 100))
    @@ (<<n_tmp, n_ng>> :> FileNode(18, 1000, 99))
    @@ (<<n_tmp, n_ul>> :> LinkNode(19, n_b, 99))
    @@ (<<n_tmp, n_rl>> :>
            Inode("link", n_b, Perm0777, 1, 20, 1, 1000, 100, "EIO"))
    @@ (<<n_tmp, n_u4>> :>
            LinkNode(21, n_rl \o Sep \o n_missing \o Sep \o n_x, 99))
    @@ (<<n_tmp, n_a, n_la>> :> LinkNode(22, DotDot \o Sep \o n_abs, 1000))

\* The user and group databases.
Users == (0 :> "root") @@ (1000 :> "andrew")
Groups == (0 :> "root") @@ (100 :> "users")

\* The working directory of the process.
Getwd == Sep \o n_tmp

\* The names of a path as the kernel reads it: empty pieces are skipped.
Components(path) == SelectSeq(Split(path), LAMBDA x : x # Empty)

Found(at) == [err |-> "nil", at |-> at]
Failed(errno) == [err |-> errno, at |-> <<>>]

\* Path resolution by the kernel from directory cur: "." stays, ".." is the
\* real parent, a symbolic link in the middle of the path (and at its end
\* when followLast) is replaced by its target, at most hops times.
RECURSIVE namei(_, _, _, _)
namei(cur, comps, followLast, hops) ==
    IF comps = <<>> THEN Found(cur)
    ELSE IF FileSystem[cur].type # "dir" THEN Failed("ENOTDIR")
    ELSE LET c == Head(comps)
             rest == Tail(comps)
             nxt == Append(cur, c)
         IN  IF c = Dot THEN namei(cur, rest, followLast, hops)
             ELSE IF c = DotDot
                  THEN namei(IF cur = <<>> THEN cur ELSE Front(cur),
                             rest, followLast, hops)
             ELSE IF nxt \notin DOMAIN FileSystem THEN Failed("ENOENT")
             ELSE IF FileSystem[nxt].type = "link" /\ (rest # <<>> \/ followLast)
                  THEN IF hops = 0 THEN Failed("ELOOP")
                       ELSE LET t == FileSystem[nxt].target
                            IN  namei(IF IsAbs(t) THEN <<>> ELSE cur,
                                      Components(t) \o rest, followLast, hops - 1)
             ELSE namei(nxt, rest, followLast, hops)

Lookup(path, followLast) ==
    IF path = Empty THEN Failed("ENOENT")
    ELSE namei(IF IsAbs(path) THEN <<>> ELSE Components(Getwd),
               Components(path), followLast, MaxSymlinks)

\* os.Lstat, os.Stat, os.Readlink
Lstat(path) == Lookup(path, FALSE)
Stat(path) == Lookup(path, TRUE)
Readlink(at) ==
    IF FileSystem[at].rlerr # "nil"
    THEN [link |-> Empty, err |-> FileSystem[at].rlerr]
    ELSE [link |-> FileSystem[at].target, err |-> "nil"]

\* filepath.Abs
Abs(path) == IF IsAbs(path) THEN Clean(path) ELSE Join(<<Getwd, path>>)

(***************************************************************************)
(* makeEntry                                                               *)
(***************************************************************************)
\* pdev = ^uint64(0): every bit set, written as the integer with every bit set.
NoParentDev == -1

\* The zero value of the entry struct.
entry ==
    [Path |-> Empty, Volume |-> Empty, Name |-> Empty, Link |-> Empty,
     Mode |-> Empty, Dev |-> 0, Pdev |-> 0, Inode |-> 0, Size |-> 0,
     Uid |-> 0, User |-> "", Gid |-> 0, Group |-> "", Level |-> 0,
     Info |-> <<>>, Err |-> NoErr]

\* canceledEntry with a slip: the name is left out.
canceledEntryNameless(err, path, volume, name, level) ==
    [entry EXCEPT !.Path = path, !.Volume = volume, !.Level = level, !.Err = err]

\* The entry returned when ctx.Err() is set: nothing is looked up.
canceledEntry(err, path, volume, name, level) ==
    [entry EXCEPT !.Path = path, !.Volume = volume, !.Name = name,
                  !.Level = level, !.Err = err]

\* parentDevice with a slip: the parent is looked up even when it is dest.
parentDeviceUnchecked(dest) ==
    LET parent == Dir(Abs(dest))
        pinfo == Stat(parent)
    IN  IF pinfo.err = "nil"
        THEN FileSystem[pinfo.at].dev
        ELSE NoParentDev

\* The parent's device id of dest, or the initial value of pdev.
parentDevice(dest) ==
    LET parent == Dir(Abs(dest))
        pinfo == Stat(parent)
    IN  IF parent # dest /\ pinfo.err = "nil"
        THEN FileSystem[pinfo.at].dev
        ELSE NoParentDev

\* The path makeEntry hands to os.Lstat.
destOf(from, path) == Join(<<from, path>>)

\* makeEntry after its cancellation check.
lookupEntry(from, path, volume, name, level) ==
    LET dest == destOf(from, path)
        st == Lstat(dest)
        found == st.err = "nil"
        info == FileSystem[st.at]
        rl == IF found /\ ModeSymlink \in info.mode
              THEN Readlink(st.at)
              ELSE [link |-> Empty, err |-> "nil"]
        err1 == IF ~found THEN Error("lstat", dest, st.err)
                ELSE IF rl.err # "nil" THEN Error("readlink", dest, rl.err)
                ELSE NoErr
        ok == err1 = NoErr
        uerr == ok /\ info.uid \notin DOMAIN Users
        gerr == ok /\ ~uerr /\ info.gid \notin DOMAIN Groups
    IN  [Path |-> path, Volume |-> volume, Name |-> name,
         Link |-> rl.link,
         Mode |-> IF found THEN mode(info.mode) ELSE Empty,
         Dev |-> IF ok THEN info.dev ELSE 0,
         Pdev |-> IF ok THEN parentDevice(dest) ELSE NoParentDev,
         Inode |-> IF ok THEN info.ino ELSE 0,
         Size |-> IF ok THEN info.size ELSE 0,
         Uid |-> IF ok THEN info.uid ELSE 0,
         User |-> IF ok /\ ~uerr THEN Users[info.uid] ELSE "",
         Gid |-> IF ok THEN info.gid ELSE 0,
         Group |-> IF ok /\ ~uerr /\ ~gerr THEN Groups[info.gid] ELSE "",
         Level |-> level,
         Info |-> IF found THEN <<st.at>> ELSE <<>>,
         Err |-> IF uerr THEN Error("user.LookupId", Empty, "unknown userid")
                 ELSE IF gerr THEN Error("user.LookupGroupId", Empty, "unknown groupid")
                 ELSE err1]

(***************************************************************************)
(* The walk as a state machine.                                            *)
(***************************************************************************)
VARIABLES
    root,       \* the path given to walk
    ctxErr,     \* ctx.Err(): NoErr until the context is canceled
    pc,         \* where the walker is: start, enter, makeEntry, lookup, visit, done
    call,       \* the arguments of the walkRecursive call being entered
    stack,      \* the walkRecursive frames: from, elem, volume, i (1-based), level
    e,          \* the entry made for the current element
    visited,    \* history: every call of fn: its Record, what fn returned, the
                \* position of the element and the number of lookups made so far
    lookups,    \* history: every path handed to os.Lstat
    fired,      \* history: when the context was canceled (calls of fn so far, pc)
    seen,       \* history: the cancellation check that found the context canceled first
    result,     \* the value walk returned
    arg,        \* the arguments of a function that is called on its own
    ret         \* what that function returned; for run, what it has collected,
                \* written and returned so far

vars == <<root, ctxErr, pc, call, stack, e, visited, lookups, fired, seen, result,
          arg, ret>>

p_tmp_a == Sep \o n_tmp \o Sep \o n_a
p_tmp_a_link == p_tmp_a \o Sep \o n_link
p_tmp_a_missing == p_tmp_a \o Sep \o n_missing
p_bin_x == Sep \o n_bin \o Sep \o n_x
p_tmp_abs == Sep \o n_tmp \o Sep \o n_abs
p_tmp_l1 == Sep \o n_tmp \o Sep \o n_l1
p_tmp_nu == Sep \o n_tmp \o Sep \o n_nu
p_tmp_ng == Sep \o n_tmp \o Sep \o n_ng
p_tmp_ul_target == Sep \o n_tmp \o Sep \o n_ul \o Sep \o n_target
p_tmp_rl == Sep \o n_tmp \o Sep \o n_rl
p_a_link == n_a \o Sep \o n_link
p_mnt == Sep \o n_mnt
p_bin_missing == Sep \o n_bin \o Sep \o n_missing
p_tmp_u4 == Sep \o n_tmp \o Sep \o n_u4
p_tmp_a_la_x == p_tmp_a \o Sep \o n_la \o Sep \o n_x
p_dotdot == DotDot

\* The paths walk is called with.
RootPaths ==
    {p_tmp_a_link, p_tmp_a_missing, p_bin_x, p_tmp_abs, p_tmp_l1, p_tmp_nu,
     p_tmp_ng, p_tmp_ul_target, p_tmp_rl, p_a_link, p_mnt, p_bin_missing,
     p_tmp_u4, p_tmp_a_la_x, p_dotdot}

NoCall == [from |-> Empty, path |-> Empty, level |-> 0]
NotFired == [n |-> -1, pc |-> ""]

Init ==
    /\ root \in RootPaths
    /\ ctxErr = NoErr
    /\ pc = "start"
    /\ call = NoCall
    /\ stack = <<>>
    /\ e = entry
    /\ visited = <<>>
    /\ lookups = <<>>
    /\ fired = NotFired
    /\ seen = "none"
    /\ result = NoErr
    /\ arg = <<>>
    /\ ret = <<>>

\* The context is canceled, or its deadline passes, at any moment.
Cancel(err) ==
    /\ ctxErr = NoErr
    /\ pc # "done"
    /\ ctxErr' = err
    /\ fired' = [n |-> Len(visited), pc |-> pc]
    /\ UNCHANGED <<root, pc, call, stack, e, visited, lookups, seen, result,
                   arg, ret>>

\* walk: return walkRecursive(ctx, "", path, 0, fn)
walk ==
    /\ pc = "start"
    /\ call' = [from |-> Empty, path |-> root, level |-> 0]
    /\ pc' = "enter"
    /\ UNCHANGED <<root, ctxErr, stack, e, visited, lookups, fired, seen, result,
                   arg, ret>>

\* nextElement with a slip: a nested walk is left after one iteration.
RECURSIVE nextElementLeavesNested(_)
nextElementLeavesNested(stk) ==
    IF stk = <<>> THEN <<>>
    ELSE LET f == Last(stk)
         IN  IF f.i < Len(f.elem) /\ Len(stk) = 1
             THEN Append(Front(stk), [f EXCEPT !.i = f.i + 1])
             ELSE nextElementLeavesNested(Front(stk))

\* The frames after the current iteration of the innermost loop ends without
\* an error: the loop moves to its next element, and a loop that has no
\* element left returns nil to its caller, whose loop moves on in turn.
RECURSIVE nextElement(_)
nextElement(stk) ==
    IF stk = <<>> THEN <<>>
    ELSE LET f == Last(stk)
         IN  IF f.i < Len(f.elem)
             THEN Append(Front(stk), [f EXCEPT !.i = f.i + 1])
             ELSE nextElement(Front(stk))

\* The walker goes on with the frames stk, or walk returns nil.
Continue(stk) ==
    /\ stack' = stk
    /\ IF stk = <<>>
       THEN pc' = "done" /\ result' = NoErr
       ELSE pc' = "makeEntry" /\ UNCHANGED result

\* Return with a slip: the caller drops the error and goes on with its loop.
ReturnDropped(err) == Continue(nextElement(Front(stack)))

\* An error returned from the innermost walkRecursive is returned by every
\* caller at once.
Return(err) ==
    /\ stack' = <<>>
    /\ pc' = "done"
    /\ result' = err

\* walkRecursive with a slip: a canceled context makes it return nil.
walkRecursiveReturnsNil ==
    /\ pc = "enter"
    /\ IF ctxErr # NoErr
       THEN Continue(nextElement(stack))
       ELSE LET sp == splitPath(call.path)
                f == [from |-> call.from, elem |-> sp.elem,
                      volume |-> sp.volume, i |-> 1, level |-> call.level]
            IN  IF sp.elem = <<>>
                THEN Continue(nextElement(stack))
                ELSE Continue(Append(stack, f))
    /\ call' = NoCall
    /\ seen' = IF ctxErr # NoErr /\ seen = "none" THEN "enter" ELSE seen
    /\ UNCHANGED <<root, ctxErr, e, visited, lookups, fired, arg, ret>>

\* walkRecursive with a slip: the cancellation check is missing.
walkRecursiveUnchecked ==
    /\ pc = "enter"
    /\ LET sp == splitPath(call.path)
           f == [from |-> call.from, elem |-> sp.elem,
                 volume |-> sp.volume, i |-> 1, level |-> call.level]
       IN  IF sp.elem = <<>>
           THEN Continue(nextElement(stack))
           ELSE Continue(Append(stack, f))
    /\ call' = NoCall
    /\ UNCHANGED <<root, ctxErr, e, visited, lookups, fired, seen, arg, ret>>

\* walkRecursive with a slip: on a canceled context the walk is started
\* over instead of being left.
walkRecursiveRestarts ==
    /\ pc = "enter"
    /\ IF ctxErr # NoErr
       THEN pc' = "start" /\ UNCHANGED <<stack, result>>
       ELSE LET sp == splitPath(call.path)
                f == [from |-> call.from, elem |-> sp.elem,
                      volume |-> sp.volume, i |-> 1, level |-> call.level]
            IN  IF sp.elem = <<>>
                THEN Continue(nextElement(stack))
                ELSE Continue(Append(stack, f))
    /\ call' = NoCall
    /\ seen' = IF ctxErr # NoErr /\ seen = "none" THEN "enter" ELSE seen
    /\ UNCHANGED <<root, ctxErr, e, visited, lookups, fired, arg, ret>>

\* The head of walkRecursive: the cancellation check and splitPath.
walkRecursive ==
    /\ pc = "enter"
    /\ IF ctxErr # NoErr
       THEN Return(ctxErr)
       ELSE LET sp == splitPath(call.path)
                f == [from |-> call.from, elem |-> sp.elem,
                      volume |-> sp.volume, i |-> 1, level |-> call.level]
            IN  IF sp.elem = <<>>
                THEN Continue(nextElement(stack))
                ELSE Continue(Append(stack, f))
    /\ call' = NoCall
    /\ seen' = IF ctxErr # NoErr /\ seen = "none" THEN "enter" ELSE seen
    /\ UNCHANGED <<root, ctxErr, e, visited, lookups, fired, arg, ret>>

\* joinElems with a slip: the last element is left out.
joinElemsShort(f, n) == Join(SubSeq(f.elem, 1, n - 1))

\* filepath.Join(elem[:n]...)
joinElems(f, n) == Join(SubSeq(f.elem, 1, n))

\* makeEntryCheck with a slip: the context is not looked at.
makeEntryCheckSkipped ==
    /\ pc = "makeEntry"
    /\ pc' = "lookup"
    /\ UNCHANGED <<root, ctxErr, call, stack, e, visited, lookups, fired, seen,
                   result, arg, ret>>

\* makeEntry, up to its cancellation check.
makeEntryCheck ==
    /\ pc = "makeEntry"
    /\ LET f == Last(stack)
       IN  IF ctxErr # NoErr
           THEN /\ e' = canceledEntry(ctxErr, joinElems(f, f.i), f.volume,
                                      f.elem[f.i], f.level)
                /\ pc' = "visit"
           ELSE /\ pc' = "lookup"
                /\ UNCHANGED e
    /\ seen' = IF ctxErr # NoErr /\ seen = "none" THEN "makeEntry" ELSE seen
    /\ UNCHANGED <<root, ctxErr, call, stack, visited, lookups, fired, result,
                   arg, ret>>

\* makeEntry, from os.Lstat to its return.
makeEntryLookup ==
    /\ pc = "lookup"
    /\ LET f == Last(stack)
           path == joinElems(f, f.i)
       IN  /\ e' = lookupEntry(f.from, path, f.volume, f.elem[f.i], f.level)
           /\ lookups' = Append(lookups, destOf(f.from, path))
    /\ pc' = "visit"
    /\ UNCHANGED <<root, ctxErr, call, stack, visited, fired, seen, result,
                   arg, ret>>

\* The position of the current element: its index in every active loop.
Position(stk) == [k \in 1..Len(stk) |-> stk[k].i]

\* relOf with a slip: the base is kept for an absolute target too.
relOfAlways(f, link) == Join(<<f.from, joinElems(f, f.i - 1)>>)

\* relOf with a slip: the elements before the link are left out of the base.
relOfBaseOnly(f, link) == IF ~IsAbs(link) THEN f.from ELSE Empty

\* The base of the nested walk of the link found as element f.i.
relOf(f, link) ==
    IF ~IsAbs(link) THEN Join(<<f.from, joinElems(f, f.i - 1)>>) ELSE Empty

\* afterVisit with a slip: the walker itself returns a Record's cancellation
\* error.
afterVisitStopsOnCanceled(f, follow, err) ==
    IF err # NoErr \/ e.Err \in ContextErrors
    THEN Return(IF err # NoErr THEN err ELSE e.Err) /\ UNCHANGED call
    ELSE IF follow /\ e.Link # Empty
         THEN /\ call' = [from |-> relOf(f, e.Link), path |-> e.Link,
                          level |-> f.level + 1]
              /\ pc' = "enter"
              /\ UNCHANGED <<stack, result>>
         ELSE Continue(nextElement(stack)) /\ UNCHANGED call

\* afterVisit with a slip: the walker itself returns the error of a lookup.
afterVisitStopsOnLookupError(f, follow, err) ==
    IF err # NoErr \/ e.Err \notin (ContextErrors \cup {NoErr})
    THEN Return(IF err # NoErr THEN err ELSE e.Err) /\ UNCHANGED call
    ELSE IF follow /\ e.Link # Empty
         THEN /\ call' = [from |-> relOf(f, e.Link), path |-> e.Link,
                          level |-> f.level + 1]
              /\ pc' = "enter"
              /\ UNCHANGED <<stack, result>>
         ELSE Continue(nextElement(stack)) /\ UNCHANGED call

\* afterVisit with a slip: the nested walk is given the level of its caller.
afterVisitKeepsLevel(f, follow, err) ==
    IF err # NoErr
    THEN Return(err) /\ UNCHANGED call
    ELSE IF follow /\ e.Link # Empty
         THEN /\ call' = [from |-> relOf(f, e.Link), path |-> e.Link,
                          level |-> f.level]
              /\ pc' = "enter"
              /\ UNCHANGED <<stack, result>>
         ELSE Continue(nextElement(stack)) /\ UNCHANGED call

\* afterVisit with a slip: a link is followed whatever fn answered.
afterVisitAlwaysFollows(f, follow, err) ==
    IF err # NoErr
    THEN Return(err) /\ UNCHANGED call
    ELSE IF e.Link # Empty
         THEN /\ call' = [from |-> relOf(f, e.Link), path |-> e.Link,
                          level |-> f.level + 1]
              /\ pc' = "enter"
              /\ UNCHANGED <<stack, result>>
         ELSE Continue(nextElement(stack)) /\ UNCHANGED call

\* afterVisit with a slip: the walker has a depth ceiling of its own.
afterVisitWithCeiling(f, follow, err) ==
    IF err # NoErr
    THEN Return(err) /\ UNCHANGED call
    ELSE IF follow /\ e.Link # Empty /\ f.level + 1 < MaxLevel
         THEN /\ call' = [from |-> relOf(f, e.Link), path |-> e.Link,
                          level |-> f.level + 1]
              /\ pc' = "enter"
              /\ UNCHANGED <<stack, result>>
         ELSE Continue(nextElement(stack)) /\ UNCHANGED call

\* What walkRecursive does with the answer of fn.
afterVisit(f, follow, err) ==
    IF err # NoErr
    THEN Return(err) /\ UNCHANGED call
    ELSE IF follow /\ e.Link # Empty
         THEN /\ call' = [from |-> relOf(f, e.Link), path |-> e.Link,
                          level |-> f.level + 1]
              /\ pc' = "enter"
              /\ UNCHANGED <<stack, result>>
         ELSE Continue(nextElement(stack)) /\ UNCHANGED call

\* The errors a visitor returns for a Record: none, the Record's, its own.
VisitorErrors(rec) == {NoErr, rec.Err, VisitorErr}

\* fn(ctx, e) and the rest of the loop body.
visit(follow, err) ==
    /\ pc = "visit"
    /\ follow => e.Level < MaxLevel
    /\ err \in VisitorErrors(e)
    /\ visited' = Append(visited, [e |-> e, follow |-> follow, err |-> err,
                                   pos |-> Position(stack),
                                   looked |-> Len(lookups)])
    /\ afterVisit(Last(stack), follow, err)
    /\ UNCHANGED <<root, ctxErr, e, lookups, fired, seen, arg, ret>>

Next ==
    \/ walk
    \/ walkRecursive
    \/ makeEntryCheck
    \/ makeEntryLookup
    \/ \E follow \in BOOLEAN, err \in {NoErr, VisitorErr} \cup {e.Err} : visit(follow, err)
    \/ \E err \in ContextErrors : Cancel(err)

Spec == Init /\ [][Next]_vars

(***************************************************************************)
(* Reading the history of a walk.                                          *)
(***************************************************************************)
\* fn allowed the walker to follow the link of this Record.
Followed(v) == v.follow /\ v.err = NoErr /\ v.e.Link # Empty

\* Call k of fn made a lookup of its own, and the path it looked up.
LookedUp(k) == visited[k].looked > (IF k = 1 THEN 0 ELSE visited[k - 1].looked)
DestAt(k) == lookups[visited[k].looked]

\* The calls of fn before call k for the link whose target is walked by loop
\* j of call k (there is exactly one when j > 1).
Openers(k, j) ==
    {i \in 1..(k - 1) : visited[i].pos = SubSeq(visited[k].pos, 1, j - 1)}

\* The elements loop j of call k ranges over.
FrameElems(k, j) ==
    IF j = 1 THEN splitPath(root).elem
    ELSE IF Openers(k, j) = {} THEN <<>>
    ELSE splitPath(visited[CHOOSE i \in Openers(k, j) : TRUE].e.Link).elem

\* Call k of fn is for the last element of every loop that is active.
AtEnd(k) ==
    \A j \in 1..Len(visited[k].pos) : visited[k].pos[j] = Len(FrameElems(k, j))

\* Position q is the element after position p: the next element of one of
\* the loops of call k, all loops inside that one being at their last element.
NextSibling(k, p, q) ==
    \E n \in 1..Len(p) :
        /\ q = Append(SubSeq(p, 1, n - 1), p[n] + 1)
        /\ \A j \in (n + 1)..Len(p) : p[j] = Len(FrameElems(k, j))

(***************************************************************************)
(* C1: walk delivers Records depth-first in path order.  The first Record  *)
(* is the first element of the root path; a Record whose link is followed  *)
(* is succeeded by the first element of the link's target; any other       *)
(* Record is succeeded by the next element of the innermost path that has  *)
(* one left, so that every Record of a nested walk comes before the next   *)
(* element of the outer path; every Record names the element at its        *)
(* position; and a walk that returns nil has visited every element.        *)
(***************************************************************************)
C1_DepthFirstOrder ==
    /\ \A k \in 1..Len(visited) :
         LET v == visited[k]
             els == FrameElems(k, Len(v.pos))
         IN  /\ v.pos # <<>>
             /\ Last(v.pos) \in 1..Len(els)
             /\ v.e.Name = els[Last(v.pos)]
             /\ IF k = 1 THEN v.pos = <<1>>
                ELSE LET u == visited[k - 1]
                     IN  IF Followed(u) THEN v.pos = Append(u.pos, 1)
                         ELSE NextSibling(k - 1, u.pos, v.pos)
    /\ (pc = "done" /\ result = NoErr) =>
           /\ visited # <<>>
           /\ ~Followed(Last(visited))
           /\ AtEnd(Len(visited))

\* A walk has finished in which the Records of a nested walk of two elements
\* were delivered before the next element of the outer path.
C1_Witness ==
    /\ pc = "done"
    /\ result = NoErr
    /\ \E k \in 2..(Len(visited) - 1) :
           /\ Len(visited[k - 1].pos) = 2
           /\ Len(visited[k].pos) = 2
           /\ Len(visited[k + 1].pos) = 1

(***************************************************************************)
(* C2: once fn has returned a non-nil error for a Record, at any depth and *)
(* whether or not the Record carries an error, fn is not called again and  *)
(* walk returns exactly that error.                                        *)
(***************************************************************************)
C2_VisitorErrorStopsWalk ==
    \A k \in 1..Len(visited) :
        visited[k].err # NoErr =>
            /\ k = Len(visited)
            /\ pc = "done"
            /\ result = visited[k].err

\* fn returned an error of its own for an error-free Record of a nested walk
\* while the nested and the outer path both had elements left.
C2_Witness ==
    /\ visited # <<>>
    /\ LET v == Last(visited)
       IN  /\ v.err = VisitorErr
           /\ v.e.Err = NoErr
           /\ Len(v.pos) = 2
           /\ \A j \in 1..2 : v.pos[j] < Len(FrameElems(Len(visited), j))

(***************************************************************************)
(* C3: the nested walk of a relative link target looks every element up    *)
(* under the directory that contains the link (the directory part of the   *)
(* path the link itself was looked up with); for the root /tmp/a/link with *)
(* link -> ../b/target the lookups of the nested walk are /tmp, /tmp/b and *)
(* /tmp/b/target.                                                          *)
(***************************************************************************)
C3_RelativeLinkBase ==
    /\ \A k \in 1..Len(visited) :
         \A o \in Openers(k, Len(visited[k].pos)) :
            (LookedUp(k) /\ ~IsAbs(visited[o].e.Link)) =>
                DestAt(k) = Join(<<Dir(DestAt(o)), visited[k].e.Path>>)
    /\ \A k \in 1..Len(visited) :
         (root = p_tmp_a_link /\ Len(visited[k].pos) = 2 /\ LookedUp(k)) =>
             DestAt(k) = SubSeq(Sep \o n_tmp \o Sep \o n_b \o Sep \o n_target, 1,
                                CASE visited[k].pos[2] = 1 -> 4
                                  [] visited[k].pos[2] = 2 -> 6
                                  [] OTHER -> 13)

\* The walk of /tmp/a/link has followed the link and looked up its last
\* element, which is neither root-relative nor relative to the working
\* directory /tmp.
C3_Witness ==
    /\ root = p_tmp_a_link
    /\ visited # <<>>
    /\ Last(visited).pos = <<4, 3>>
    /\ LookedUp(Len(visited))
    /\ DestAt(Len(visited)) = Sep \o n_tmp \o Sep \o n_b \o Sep \o n_target
    /\ DestAt(Len(visited)) # Join(<<root, Last(visited).e.Path>>)
    /\ DestAt(Len(visited)) # Join(<<Getwd, Last(visited).e.Path>>)

(***************************************************************************)
(* C4: after a call of fn the walker enters a nested walk if and only if   *)
(* fn returned follow = true and a nil error and the Record's link is not  *)
(* empty; when fn returns follow = false and nil for a symlink Record, the *)
(* next Record, if there is one, is the next element of the current or of  *)
(* an outer path and not an element of the link's target.                  *)
(***************************************************************************)
C4_FollowIff ==
    /\ [][(pc = "visit" /\ visited' # visited) =>
              ((pc' = "enter") <=> Followed(Last(visited')))]_vars
    /\ [](\A k \in 1..(Len(visited) - 1) :
              LET v == visited[k]
              IN  (~v.follow /\ v.err = NoErr /\ v.e.Link # Empty) =>
                      /\ visited[k + 1].e.Level <= v.e.Level
                      /\ NextSibling(k, v.pos, visited[k + 1].pos))

\* fn declined one link, whose next sibling was then visited, and accepted
\* another, whose target was then walked.
C4_Witness ==
    \E k, n \in 1..(Len(visited) - 1) :
        /\ visited[k].e.Link # Empty
        /\ ~visited[k].follow
        /\ visited[k].err = NoErr
        /\ visited[n].e.Link # Empty
        /\ Followed(visited[n])
        /\ visited[n + 1].pos = Append(visited[n].pos, 1)

(***************************************************************************)
(* C5: when the context is already canceled at the call of walk, walk      *)
(* returns the context's error (Canceled or DeadlineExceeded), no path is  *)
(* looked up and fn is never called.                                       *)
(***************************************************************************)
C5_CanceledBeforeWalk ==
    fired.pc = "start" =>
        /\ visited = <<>>
        /\ lookups = <<>>
        /\ pc \in {"start", "enter", "done"}
        /\ pc = "done" => (result = ctxErr /\ result \in ContextErrors)

\* walk has returned DeadlineExceeded for a context whose deadline had
\* passed before the call.
C5_Witness ==
    /\ fired.pc = "start"
    /\ pc = "done"
    /\ result = DeadlineExceeded

(***************************************************************************)
(* Records made by the cancellation check of makeEntry.                    *)
(***************************************************************************)
IsCanceledRecord(v) == v.e.Err \in ContextErrors

\* The Record carries path, volume, name, depth and the error, nothing else.
CarriesOnlyError(v) ==
    v.e = canceledEntry(v.e.Err, v.e.Path, v.e.Volume, v.e.Name, v.e.Level)

(***************************************************************************)
(* C6, as claimed: when the per-element cancellation check finds the       *)
(* context canceled, the walker delivers one Record carrying only the      *)
(* cancellation error and then stops, whatever fn returns for it: no       *)
(* Record is delivered after it.                                           *)
(***************************************************************************)
C6_StopsAfterCanceledRecord ==
    \A k \in 1..Len(visited) :
        IsCanceledRecord(visited[k]) =>
            /\ CarriesOnlyError(visited[k])
            /\ k = Len(visited)

(***************************************************************************)
(* C6, amended: when the per-element cancellation check finds the context  *)
(* canceled, the walker delivers a Record carrying only the cancellation   *)
(* error, without a lookup, and stops if fn returns an error for it; if fn *)
(* returns nil the walker goes on with the next element of the current or  *)
(* an outer path, never starts a nested walk, and delivers the same kind   *)
(* of Record for it; when fn returns nil for all of them, walk has visited *)
(* every remaining element and returns nil.                                *)
(***************************************************************************)
C6_CanceledRecordLeavesStopToVisitor ==
    \A k \in 1..Len(visited) :
        LET v == visited[k]
        IN  IsCanceledRecord(v) =>
                /\ v.e.Err = ctxErr
                /\ CarriesOnlyError(v)
                /\ ~LookedUp(k)
                /\ v.err # NoErr => (k = Len(visited) /\ pc = "done")
                /\ (v.err = NoErr /\ k < Len(visited)) =>
                       /\ IsCanceledRecord(visited[k + 1])
                       /\ NextSibling(k, v.pos, visited[k + 1].pos)
                /\ (v.err = NoErr /\ k = Len(visited)) =>
                       /\ pc \in {"makeEntry", "visit", "done"}
                       /\ pc = "done" => (AtEnd(k) /\ result = NoErr)

\* fn returned nil for a cancellation Record and was called again, for the
\* next element, with another cancellation Record.
C6_Witness ==
    \E k \in 1..(Len(visited) - 1) :
        /\ IsCanceledRecord(visited[k])
        /\ visited[k].err = NoErr
        /\ IsCanceledRecord(visited[k + 1])

(***************************************************************************)
(* C7, as claimed: once the context has been canceled during a walk, the   *)
(* next cancellation check aborts the remaining walk, and walk returns a   *)
(* cancellation error, never nil, for every visitor.                       *)
(***************************************************************************)
C7_CanceledWalkReturnsContextError ==
    (pc = "done" /\ seen # "none") =>
        /\ result \in ContextErrors
        /\ Cardinality({k \in 1..Len(visited) : IsCanceledRecord(visited[k])}) <= 1

(***************************************************************************)
(* C7, amended: once the context has been canceled during a walk, no path  *)
(* is looked up after the next cancellation check.  If that check is the   *)
(* one at the head of walkRecursive, walk returns the cancellation error.  *)
(* If it is the check of makeEntry, every Record from then on carries the  *)
(* cancellation error and walk returns what fn returns for the last of     *)
(* them: the first non-nil error of fn, or nil when fn returns nil for     *)
(* every remaining element.                                                *)
(***************************************************************************)
C7_CanceledWalkReturnsVisitorAnswer ==
    /\ \A k \in 1..Len(visited) : \A n \in k..Len(visited) :
           IsCanceledRecord(visited[k]) =>
               (IsCanceledRecord(visited[n]) /\ ~LookedUp(n))
    /\ \A k \in 1..Len(visited) :
           IsCanceledRecord(visited[k]) => Len(lookups) = visited[k].looked
    /\ (pc = "done" /\ seen = "enter") =>
           /\ result = ctxErr
           /\ result \in ContextErrors
           /\ \A k \in 1..Len(visited) : ~IsCanceledRecord(visited[k])
    /\ (pc = "done" /\ seen = "makeEntry") =>
           /\ visited # <<>>
           /\ Last(visited).e.Err = ctxErr
           /\ result = Last(visited).err
           /\ result = NoErr => AtEnd(Len(visited))

\* The context was canceled after the walk had begun, fn returned nil for
\* every cancellation Record, and walk returned nil.
C7_Witness ==
    /\ pc = "done"
    /\ seen = "makeEntry"
    /\ fired.n >= 1
    /\ result = NoErr

(***************************************************************************)
(* C8: a walk of a path of which every component but the last exists and   *)
(* resolves, by a visitor that returns the error of the Record it is       *)
(* given (nil for an error-free Record) and with no cancellation, delivers *)
(* an error-free Record for every prior component, in order, then exactly  *)
(* one error-bearing Record, for the final component, and returns that     *)
(* Record's error.                                                         *)
(***************************************************************************)
\* Every component of path p but the last one resolves; the last is missing.
OnlyFinalMissing(p) ==
    LET els == splitPath(p).elem
    IN  /\ Len(els) >= 2
        /\ \A m \in 1..(Len(els) - 1) :
               lookupEntry(Empty, Join(SubSeq(els, 1, m)), Empty, els[m], 0).Err = NoErr
        /\ Lstat(Join(els)).err = "ENOENT"

\* fn has returned the error of every Record it was given.
PassThrough == \A k \in 1..Len(visited) : visited[k].err = visited[k].e.Err

\* The Records of the elements of the root path.
RootRecords == SelectSeq(visited, LAMBDA v : Len(v.pos) = 1)

C8_MissingFinalComponent ==
    (pc = "done" /\ OnlyFinalMissing(root) /\ fired = NotFired /\ PassThrough) =>
        LET els == splitPath(root).elem
            top == RootRecords
        IN  /\ Len(top) = Len(els)
            /\ \A m \in 1..Len(top) : top[m].pos = <<m>> /\ top[m].e.Name = els[m]
            /\ \A m \in 1..(Len(top) - 1) : top[m].e.Err = NoErr
            /\ Last(visited) = Last(top)
            /\ Last(top).e.Err = Error("lstat", root, "ENOENT")
            /\ Cardinality({k \in 1..Len(visited) : visited[k].e.Err # NoErr}) = 1
            /\ result = Last(top).e.Err

\* The walk of /bin/miss, whose component bin is a link that was followed,
\* has ended with the error of the missing component.
C8_Witness ==
    /\ pc = "done"
    /\ root = p_bin_missing
    /\ OnlyFinalMissing(root)
    /\ fired = NotFired
    /\ PassThrough
    /\ Len(visited) > Len(RootRecords)
    /\ result = Error("lstat", root, "ENOENT")

ErrorKind(v) == v.e.Err.op

C10_ErrorRecordsAreZero ==
    \A k \in 1..Len(visited) :
        LET r == visited[k].e
        IN  r.Err # NoErr =>
                /\ r.Link = Empty
                /\ r.Mode = Empty
                /\ r.Dev = 0
                /\ r.Pdev = 0
                /\ r.Inode = 0
                /\ r.Size = 0
                /\ r.Uid = 0
                /\ r.User = ""
                /\ r.Gid = 0
                /\ r.Group = ""

(***************************************************************************)
(* C11: the depth of every Record is the number of symlink follows that    *)
(* are active when it is made: 0 for every element of the root path, the   *)
(* depth of the link's Record plus 1 for every element of a followed       *)
(* link's target, and the outer depth again for the elements of the outer  *)
(* path that come after a nested walk has returned.                        *)
(***************************************************************************)
C11_DepthCountsActiveFollows ==
    \A k \in 1..Len(visited) :
        LET v == visited[k]
        IN  /\ v.e.Level = Len(v.pos) - 1
            /\ Len(v.pos) = 1 => v.e.Level = 0
            /\ \A o \in Openers(k, Len(v.pos)) :
                   Len(v.pos) > 1 =>
                       (Followed(visited[o]) /\ v.e.Level = visited[o].e.Level + 1)
            /\ \A i \in 1..(k - 1) :
                   Front(visited[i].pos) = Front(v.pos) =>
                       visited[i].e.Level = v.e.Level
            /\ k > 1 =>
                   IF Followed(visited[k - 1])
                   THEN v.e.Level = visited[k - 1].e.Level + 1
                   ELSE v.e.Level <= visited[k - 1].e.Level

\* A link at depth 1 was followed, its target was walked at depth 2, and the
\* walk came back to an element of the root path, at depth 0.
C11_Witness ==
    \E i, k, n \in 1..Len(visited) :
        /\ i < k /\ k < n
        /\ visited[i].e.Level = 1
        /\ Followed(visited[i])
        /\ visited[k].e.Level = 2
        /\ visited[k].pos = Append(visited[i].pos, 1)
        /\ visited[n].e.Level = 0
        /\ visited[n].pos = <<visited[i].pos[1] + 1>>

(***************************************************************************)
(* C12: the nested walk of an absolute link target ignores the accumulated *)
(* base: every element is looked up from the filesystem root, under an     *)
(* empty base, so that the path looked up is the Record's own path and     *)
(* begins with the root element, whatever the base and position of the     *)
(* link were.                                                              *)
(***************************************************************************)
C12_AbsoluteTargetIgnoresBase ==
    \A k \in 1..Len(visited) :
        \A o \in Openers(k, Len(visited[k].pos)) :
            (Len(visited[k].pos) > 1 /\ LookedUp(k) /\ IsAbs(visited[o].e.Link)) =>
                LET els == splitPath(visited[o].e.Link).elem
                IN  /\ els[1] = Sep
                    /\ DestAt(k) = visited[k].e.Path
                    /\ DestAt(k) = Join(SubSeq(els, 1, Last(visited[k].pos)))
                    /\ IsAbs(DestAt(k))

\* An absolute link was found inside a nested walk with a base, under which
\* it was looked up, and the last element of its target was looked up from
\* the root.
C12_Witness ==
    \E o, k \in 1..Len(visited) :
        /\ o < k
        /\ Len(visited[o].pos) = 2
        /\ IsAbs(visited[o].e.Link)
        /\ DestAt(o) # visited[o].e.Path
        /\ Len(visited[k].pos) = 3
        /\ o \in Openers(k, 3)
        /\ LookedUp(k)
        /\ DestAt(k) = Sep \o n_usr \o Sep \o n_y

(***************************************************************************)
(* splitPath called on its own, with every path of at most MaxPathLen      *)
(* characters over a small alphabet and with the paths of TestSplitPath.   *)
(***************************************************************************)
n_local == <<"l", "o", "c", "a", "l">>
n_foo == <<"f", "o", "o">>
n_bar == <<"b", "a", "r">>
n_baz == <<"b", "a", "z">>
n_file == <<"f", "i", "l", "e">>
n_rel == <<"r", "e", "l">>
n_path == <<"p", "a", "t", "h">>
n_c == <<"c">>

s_usr_local_bin == Sep \o n_usr \o Sep \o n_local \o Sep \o n_bin
s_foo_bar_baz == n_foo \o Sep \o n_bar \o Sep \o n_baz
s_usr_local_slash == Sep \o n_usr \o Sep \o n_local \o Sep
s_dot_foo_dotdot_bar == Dot \o Sep \o n_foo \o Sep \o DotDot \o Sep \o n_bar
s_slashes_usr_local == Sep \o Sep \o n_usr \o Sep \o Sep \o Sep \o n_local
s_rel_path == n_rel \o Sep \o n_path
s_a_b_dotdot_c == n_a \o Sep \o n_b \o Sep \o DotDot \o Sep \o n_c

\* The paths of TestSplitPath and of the seeds of FuzzSplitPath.
SplitPathTests ==
    {s_usr_local_bin, s_foo_bar_baz, Sep, n_file, s_usr_local_slash, Dot,
     DotDot, s_dot_foo_dotdot_bar, s_slashes_usr_local, s_rel_path,
     s_a_b_dotdot_c, Empty}

PathAlphabet == {Separator, ".", "a", "b"}

\* Every string of at most n characters of the alphabet.
Paths(n) == UNION {[1..k -> PathAlphabet] : k \in 0..n}

SplitPathInputs == Paths(MaxPathLen) \cup SplitPathTests

\* No walk is going on.
Idle ==
    /\ root = Empty
    /\ ctxErr = NoErr
    /\ call = NoCall
    /\ stack = <<>>
    /\ e = entry
    /\ visited = <<>>
    /\ lookups = <<>>
    /\ fired = NotFired
    /\ seen = "none"
    /\ result = NoErr

InitSplitPath ==
    /\ Idle
    /\ pc = "splitPath"
    /\ arg \in SplitPathInputs
    /\ ret = <<>>

\* elem, volume := splitPath(path)
callSplitPath ==
    /\ pc = "splitPath"
    /\ ret' = splitPath(arg)
    /\ pc' = "splitPath.done"
    /\ UNCHANGED <<root, ctxErr, call, stack, e, visited, lookups, fired, seen,
                   result, arg>>

NextSplitPath == callSplitPath

SpecSplitPath == InitSplitPath /\ [][NextSplitPath]_vars

\* The string has none of the characters that filepath.Clean interprets.
NoDots(str) == \A k \in 1..Len(str) : str[k] # "."

(***************************************************************************)
(* C13: for every path, filepath.Join of the elements that splitPath       *)
(* returns, in order, is the lexically cleaned path (filepath.Clean of the *)
(* input), and splitPath of that joined path returns the same elements.    *)
(***************************************************************************)
C13_SplitJoinRoundTrip ==
    pc = "splitPath.done" =>
        /\ Join(ret.elem) = Clean(arg)
        /\ splitPath(Join(ret.elem)) = ret

\* splitPath was given /usr/local/, which is not clean: the join of its
\* elements is /usr/local and not the input.
C13_Witness ==
    /\ pc = "splitPath.done"
    /\ arg = s_usr_local_slash
    /\ Join(ret.elem) = Sep \o n_usr \o Sep \o n_local
    /\ Join(ret.elem) # arg

(***************************************************************************)
(* C14: for every absolute path splitPath returns the root separator as    *)
(* the first element, followed by exactly the cleaned, non-empty segments  *)
(* of the path in order (repeated and trailing separators give no          *)
(* element), and an empty volume: "/" gives ["/"], "/usr/local/bin" gives  *)
(* ["/", "usr", "local", "bin"], "//usr///local" gives ["/", "usr",        *)
(* "local"].                                                               *)
(***************************************************************************)
C14_AbsoluteElements ==
    (pc = "splitPath.done" /\ IsAbs(arg)) =>
        /\ ret.volume = Empty
        /\ ret.elem # <<>>
        /\ ret.elem[1] = Sep
        /\ Tail(ret.elem) = CleanSegs(Split(arg), <<>>, TRUE)
        /\ \A k \in 2..Len(ret.elem) : ret.elem[k] \notin {Empty, Dot, DotDot}
        /\ NoDots(arg) => Tail(ret.elem) = Components(arg)
        /\ arg = Sep => ret.elem = <<Sep>>
        /\ arg = s_usr_local_bin => ret.elem = <<Sep, n_usr, n_local, n_bin>>
        /\ arg = s_slashes_usr_local => ret.elem = <<Sep, n_usr, n_local>>
        /\ arg = s_usr_local_slash => ret.elem = <<Sep, n_usr, n_local>>

\* splitPath was given //usr///local and returned the root and two names.
C14_Witness ==
    /\ pc = "splitPath.done"
    /\ arg = s_slashes_usr_local
    /\ ret = [elem |-> <<Sep, n_usr, n_local>>, volume |-> Empty]

(***************************************************************************)
(* C15: for every relative path splitPath returns exactly the segments, as *)
(* delimited by the separator, of the lexically cleaned path, with no root *)
(* element, and never an empty sequence: "a/b/../c" gives ["a", "c"],      *)
(* "./foo/../bar" gives ["bar"], and the empty path gives ["."].           *)
(***************************************************************************)
C15_RelativeElements ==
    (pc = "splitPath.done" /\ ~IsAbs(arg)) =>
        /\ ret.volume = Empty
        /\ ret.elem # <<>>
        /\ ret.elem = Split(Clean(arg))
        /\ \A k \in 1..Len(ret.elem) : ret.elem[k] \notin {Sep, Empty}
        /\ (NoDots(arg) /\ arg # Empty) => ret.elem = Components(arg)
        /\ arg = s_a_b_dotdot_c => ret.elem = <<n_a, n_c>>
        /\ arg = s_dot_foo_dotdot_bar => ret.elem = <<n_bar>>
        /\ arg = s_foo_bar_baz => ret.elem = <<n_foo, n_bar, n_baz>>
        /\ arg = Empty => ret.elem = <<Dot>>

\* splitPath was given a/b/../c and returned a and c.
C15_Witness ==
    /\ pc = "splitPath.done"
    /\ arg = s_a_b_dotdot_c
    /\ ret = [elem |-> <<n_a, n_c>>, volume |-> Empty]

(***************************************************************************)
(* C16: for every path, no element that splitPath returns is empty, no     *)
(* element other than the root element contains a separator, and the root  *)
(* element is found at the first position only.                            *)
(***************************************************************************)
C16_ElementsHaveNoSeparator ==
    pc = "splitPath.done" =>
        \A k \in 1..Len(ret.elem) :
            /\ ret.elem[k] # Empty
            /\ ret.elem[k] = Sep => k = 1
            /\ ret.elem[k] # Sep =>
                   \A j \in 1..Len(ret.elem[k]) : ret.elem[k][j] # Separator

\* splitPath was given a path with repeated and trailing separators and
\* returned the root and two names.
C16_Witness ==
    /\ pc = "splitPath.done"
    /\ arg = <<"/", "a", "/", "/", "b", "/">>
    /\ ret.elem = <<Sep, n_a, n_b>>

(***************************************************************************)
(* mode called on its own, with every combination of the nine permission   *)
(* bits and of the set-user-id, set-group-id and sticky bits, together     *)
(* with at most MaxTypeBits of the other bits that mode looks at.          *)
(***************************************************************************)
PermBits == 0..8
SetIdBits == {ModeSetuid, ModeSetgid, ModeSticky}
TypeBits == (19..31) \ SetIdBits

\* The file modes with at most n of the type bits set.
ModeInputs(n) ==
    {perm \cup special \cup type :
        perm \in SUBSET PermBits, special \in SUBSET SetIdBits,
        type \in {t \in SUBSET TypeBits : Cardinality(t) <= n}}

InitMode ==
    /\ Idle
    /\ pc = "mode"
    /\ arg \in ModeInputs(MaxTypeBits)
    /\ ret = <<>>

\* mod = mode(info)
callMode ==
    /\ pc = "mode"
    /\ ret' = mode(arg)
    /\ pc' = "mode.done"
    /\ UNCHANGED <<root, ctxErr, call, stack, e, visited, lookups, fired, seen,
                   result, arg>>

NextMode == callMode

SpecMode == InitMode /\ [][NextMode]_vars

\* The letters of the nine permission positions, owner first.
PermLetters == <<"r", "w", "x", "r", "w", "x", "r", "w", "x">>

(***************************************************************************)
(* C17: for every mode without the set-user-id, set-group-id and sticky    *)
(* bits, characters 2 to 10 of the result render the nine permission bits  *)
(* in the order owner r, w, x, group r, w, x, other r, w, x: a position    *)
(* shows its letter if and only if its bit is set, and '-' otherwise; a    *)
(* regular file with permissions 0644 gives exactly "-rw-r--r--".          *)
(***************************************************************************)
C17_PermissionCharacters ==
    (pc = "mode.done" /\ arg \cap SetIdBits = {}) =>
        /\ Len(ret) >= 10
        /\ \A k \in 2..10 :
               ret[k] = IF (10 - k) \in arg THEN PermLetters[k - 1] ELSE "-"
        /\ arg = Perm0644 =>
               ret = <<"-", "r", "w", "-", "r", "-", "-", "r", "-", "-">>

\* mode was given the mode of a regular file with permissions 0644.
C17_Witness ==
    /\ pc = "mode.done"
    /\ arg = Perm0644
    /\ ret = <<"-", "r", "w", "-", "r", "-", "-", "r", "-", "-">>

(***************************************************************************)
(* C18: for every mode the result has exactly 10 characters, or exactly 11 *)
(* of which the last is '+'; it has 11 if and only if at least one of the  *)
(* append-only, exclusive-use and temporary-file bits is set.              *)
(***************************************************************************)
C18_LengthAndPlus ==
    pc = "mode.done" =>
        /\ Len(ret) \in {10, 11}
        /\ Len(ret) = 11 => ret[11] = "+"
        /\ Len(ret) = 11 <=>
               arg \cap {ModeAppend, ModeExclusive, ModeTemporary} # {}

\* mode was given a mode with the temporary-file bit and returned 11
\* characters, the last of them '+'.
C18_Witness ==
    /\ pc = "mode.done"
    /\ ModeTemporary \in arg
    /\ ModeAppend \notin arg
    /\ Len(ret) = 11
    /\ ret[11] = "+"

(***************************************************************************)
(* C19: when the set-user-id bit is set, the 4th character of the result   *)
(* (the owner-execute position) is 's' if the owner-execute bit (0100) is  *)
(* set and 'S' otherwise; when the set-group-id bit is set, the 7th        *)
(* character (the group-execute position) is 's' if the group-execute bit  *)
(* (0010) is set and 'S' otherwise; for every combination of the nine      *)
(* permission bits.                                                        *)
(***************************************************************************)
C19_SetIdCaseFollowsExecuteBit ==
    pc = "mode.done" =>
        /\ ModeSetuid \in arg => ret[4] = (IF 6 \in arg THEN "s" ELSE "S")
        /\ ModeSetgid \in arg => ret[7] = (IF 3 \in arg THEN "s" ELSE "S")

(***************************************************************************)
(* C20: when the sticky bit is set, the 10th character of the result (the  *)
(* last permission character) is 't' if the other-execute bit (0001) is    *)
(* set and 'T' if it is not, for every combination of the nine permission  *)
(* bits.                                                                   *)
(***************************************************************************)
C20_StickyCaseFollowsExecuteBit ==
    pc = "mode.done" =>
        (ModeSticky \in arg => ret[10] = (IF 0 \in arg THEN "t" ELSE "T"))

(***************************************************************************)
(* mode called on its own with every combination of the thirteen bits its  *)
(* loop over attr looks at, with the permissions 0644 and with none.       *)
(***************************************************************************)
AttrBits == 19..31

TypeInputs ==
    {perm \cup type : perm \in {{}, Perm0644}, type \in SUBSET AttrBits}

InitModeType ==
    /\ Idle
    /\ pc = "mode"
    /\ arg \in TypeInputs
    /\ ret = <<>>

SpecModeType == InitModeType /\ [][NextMode]_vars

(***************************************************************************)
(* C21, as claimed: for every mode the first character of the result is    *)
(* chosen from the file-type bits: 'd' for a directory, 'l' for a symlink, *)
(* 'b' for a block device, 'c' for a character device (also when the       *)
(* device bit is set with the char-device bit), 'p' for a named pipe, 's'  *)
(* for a socket and '-' when no file-type bit is set; it is always one of  *)
(* these seven characters.                                                 *)
(***************************************************************************)
C21_TypeCharacterIsOneOfSeven ==
    pc = "mode.done" =>
        /\ ret[1] \in {"d", "l", "b", "c", "p", "s", "-"}
        /\ arg \cap AttrBits = {ModeDir} => ret[1] = "d"
        /\ arg \cap AttrBits = {ModeSymlink} => ret[1] = "l"
        /\ arg \cap AttrBits = {ModeDevice} => ret[1] = "b"
        /\ arg \cap AttrBits = {ModeCharDevice} => ret[1] = "c"
        /\ arg \cap AttrBits = {ModeDevice, ModeCharDevice} => ret[1] = "c"
        /\ arg \cap AttrBits = {ModeNamedPipe} => ret[1] = "p"
        /\ arg \cap AttrBits = {ModeSocket} => ret[1] = "s"
        /\ arg \cap AttrBits = {} => ret[1] = "-"

(***************************************************************************)
(* C21, amended: for every mode the first character of the result is       *)
(* chosen from the file-type bits, the first of these that applies: '?'    *)
(* when the irregular-file bit is set, 'c' for the char-device bit (also   *)
(* with the device bit), 's' for a socket, 'p' for a named pipe, 'b' for a *)
(* device, 'l' for a symlink, 'd' for a directory, and '-' when none of    *)
(* these bits is set; the append-only, exclusive-use, temporary, set-id    *)
(* and sticky bits have no part in it.  The first character is always one  *)
(* of these eight characters.                                              *)
(***************************************************************************)
C21_TypeCharacterIsOneOfEight ==
    pc = "mode.done" =>
        /\ ret[1] \in {"d", "l", "b", "c", "p", "s", "-", "?"}
        /\ ret[1] = CASE ModeIrregular \in arg -> "?"
                      [] ModeCharDevice \in arg -> "c"
                      [] ModeSocket \in arg -> "s"
                      [] ModeNamedPipe \in arg -> "p"
                      [] ModeDevice \in arg -> "b"
                      [] ModeSymlink \in arg -> "l"
                      [] ModeDir \in arg -> "d"
                      [] OTHER -> "-"

\* mode was given the mode of an irregular directory and returned '?' as
\* the first character.
C21_Witness ==
    /\ pc = "mode.done"
    /\ arg = Perm0644 \cup {ModeDir, ModeIrregular}
    /\ ret[1] = "?"
    /\ Len(ret) = 10

(***************************************************************************)
(* The mount-point column of entry.print.                                  *)
(***************************************************************************)
mountPointSymbol == "@"

\* if e.Dev != e.Pdev { ind = mountPointSymbol }
mountInd(r) == IF r.Dev # r.Pdev THEN mountPointSymbol ELSE ""

\* The file a Record without an error describes, and its directory.
FileOf(v) == v.e.Info[1]
HasParent(v) == FileOf(v) # <<>>
ParentOf(v) == Front(FileOf(v))

C23_NameAndPathOfElement ==
    \A k \in 1..Len(visited) :
        LET v == visited[k]
            els == FrameElems(k, Len(v.pos))
        IN  /\ v.pos # <<>>
            /\ Last(v.pos) \in 1..Len(els)
            /\ v.e.Name # Empty
            /\ v.e.Name = els[Last(v.pos)]
            /\ v.e.Path = Join(SubSeq(els, 1, Last(v.pos)))
            /\ v.e.Volume = Empty

\* fn was given the Record of the third element of a link target, made by
\* the cancellation check: it has the element's name and the path of the
\* three elements.
C23_Witness ==
    \E k \in 1..Len(visited) :
        /\ Len(visited[k].pos) = 2
        /\ Last(visited[k].pos) = 3
        /\ visited[k].e.Name = n_target
        /\ visited[k].e.Path = DotDot \o Sep \o n_b \o Sep \o n_target
        /\ IsCanceledRecord(visited[k])
        /\ ~IsCanceledRecord(visited[k - 1])

(***************************************************************************)
(* fmtName and entry.print called on their own.  Of the columns of print   *)
(* only the mount-point column is modelled; the columns whose width is     *)
(* computed over all entries are switched off.                             *)
(***************************************************************************)
indentWidth == 2

\* fmt.Sprintf("%*s", n, "")
Spaces(n) == [k \in 1..n |-> " "]

Arrow == <<" ", "-", ">", " ">>

\* fmtName with a slip: the indentation is one space for each level.
fmtNameNarrow(r) ==
    Spaces(r.Level) \o r.Name \o (IF r.Link # Empty THEN Arrow \o r.Link ELSE Empty)

fmtName(r) ==
    Spaces(indentWidth * r.Level) \o r.Name
        \o (IF r.Link # Empty THEN Arrow \o r.Link ELSE Empty)

\* The columns in front of the name, each followed by the separating space:
\* fmt.Sprintf("%*s", len(mountPointSymbol), ind) pads an empty ind.
columns(r, opts) ==
    IF opts.mount
    THEN <<IF mountInd(r) = "" THEN " " ELSE mountInd(r), " ">>
    ELSE <<>>

\* The line entry.print writes, without its newline.
print(r, opts) ==
    columns(r, opts) \o (IF ~opts.noFollow THEN fmtName(r) ELSE r.Name)

FmtNames == {n_a, n_link, Sep, DotDot}
FmtLinks == {Empty, n_target, DotDot \o Sep \o n_b \o Sep \o n_target,
             Sep \o n_usr \o Sep \o n_y}

FmtEntries ==
    {[entry EXCEPT !.Name = name, !.Link = link, !.Level = level,
                   !.Dev = 1, !.Pdev = pdev] :
        name \in FmtNames, link \in FmtLinks, level \in 0..MaxFmtLevel,
        pdev \in {1, 2}}

FmtOptions == [noFollow : BOOLEAN, mount : BOOLEAN]

InitFmtName ==
    /\ Idle
    /\ pc = "fmtName"
    /\ arg \in [e : FmtEntries, opts : FmtOptions]
    /\ ret = [fmtName |-> Empty, line |-> Empty]

\* e.fmtName()
callFmtName ==
    /\ pc = "fmtName"
    /\ ret' = [ret EXCEPT !.fmtName = fmtName(arg.e)]
    /\ pc' = "print"
    /\ UNCHANGED <<root, ctxErr, call, stack, e, visited, lookups, fired, seen,
                   result, arg>>

\* e.print(w, opts, widths)
callPrint ==
    /\ pc = "print"
    /\ ret' = [ret EXCEPT !.line = print(arg.e, arg.opts)]
    /\ pc' = "print.done"
    /\ UNCHANGED <<root, ctxErr, call, stack, e, visited, lookups, fired, seen,
                   result, arg>>

NextFmtName ==
    \/ callFmtName
    \/ callPrint

SpecFmtName == InitFmtName /\ [][NextFmtName]_vars

(***************************************************************************)
(* C24: for every entry fmtName returns exactly indentWidth (2) times the  *)
(* depth spaces, then the name, then " -> " and the link target if and     *)
(* only if the link is not empty; entry.print writes this indented form,   *)
(* with the link target, after its columns when noFollow is not set, and   *)
(* the bare name, with no indentation and no target, when noFollow is set. *)
(***************************************************************************)
C24_FmtNameAndPrint ==
    /\ pc \in {"print", "print.done"} =>
           LET r == arg.e
               f == ret.fmtName
               n == 2 * r.Level
               m == n + Len(r.Name)
           IN  /\ Len(f) = m + (IF r.Link # Empty THEN 4 + Len(r.Link) ELSE 0)
               /\ \A k \in 1..n : f[k] = " "
               /\ SubSeq(f, n + 1, m) = r.Name
               /\ r.Link # Empty =>
                      /\ SubSeq(f, m + 1, m + 4) = <<" ", "-", ">", " ">>
                      /\ SubSeq(f, m + 5, Len(f)) = r.Link
    /\ pc = "print.done" =>
           LET cols == IF arg.opts.mount THEN 2 ELSE 0
               name == SubSeq(ret.line, cols + 1, Len(ret.line))
           IN  /\ Len(ret.line) >= cols
               /\ ~arg.opts.noFollow => name = ret.fmtName
               /\ arg.opts.noFollow => name = arg.e.Name

\* print has written the link "link" of depth 2 with its target, indented by
\* four spaces.
C24_Witness ==
    /\ pc = "print.done"
    /\ arg.e.Level = 2
    /\ arg.e.Name = n_link
    /\ arg.e.Link = n_target
    /\ arg.opts = [noFollow |-> FALSE, mount |-> FALSE]
    /\ ret.line = <<" ", " ", " ", " ">> \o n_link \o <<" ", "-", ">", " ">> \o n_target

(***************************************************************************)
(* run: the paths of the command line are processed one after another by   *)
(* processPath, which collects the Records of a walk with collectEntries   *)
(* and prints them.  arg holds the paths and options of the command line,  *)
(* ret the loop index of run, the entries collected for the current path,  *)
(* the lines written to out, the paths walked so far and the error run     *)
(* returned.                                                               *)
(***************************************************************************)
\* fmt.Errorf("timeout after %v", elapsed)
TimeoutAfter == Error("contextError", Empty, "timeout after")

contextError(err) == IF err = DeadlineExceeded THEN TimeoutAfter ELSE err

\* A line written to out while path i is processed.
Line(i, kind, text) == [i |-> i, kind |-> kind, text |-> text]

\* printError: " * name: error"
printError(r) == <<" ", "*", " ">> \o r.Name

\* printEntries
printEntries(i, entries, opts) ==
    [k \in 1..Len(entries) |->
        IF entries[k].Err # NoErr
        THEN Line(i, "error", printError(entries[k]))
        ELSE Line(i, "entry", print(entries[k], opts))]

RunPaths == {p_tmp_a_link, p_tmp_a_missing, p_mnt, p_tmp_rl}

RunArgs ==
    [paths : UNION {[1..n -> RunPaths] : n \in 0..MaxPaths},
     opts : [noFollow : BOOLEAN, mount : {FALSE}]]

\* If no paths were given, use PWD.
pathsOf(args) == IF args.paths = <<>> THEN <<Getwd>> ELSE args.paths

InitRun ==
    /\ Idle
    /\ pc = "run"
    /\ arg \in RunArgs
    /\ ret = [i |-> 1, entries |-> <<>>, out |-> <<>>, walks |-> <<>>,
              err |-> NoErr]

\* The context of run is canceled, or its deadline passes, at any moment
\* before run returns.
ctxDone(err) ==
    /\ ctxErr = NoErr
    /\ pc # "exit"
    /\ ctxErr' = err
    /\ fired' = [n |-> Len(visited), pc |-> pc]
    /\ UNCHANGED <<root, pc, call, stack, e, visited, lookups, seen, result,
                   arg, ret>>

\* The head of the loop of run, and processPath and collectEntries up to
\* their call of walk.
run ==
    /\ pc = "run"
    /\ LET paths == pathsOf(arg)
           i == ret.i
       IN  IF i > Len(paths)
           THEN /\ pc' = "exit"
                /\ UNCHANGED <<root, visited, lookups, seen, ret>>
           ELSE /\ root' = paths[i]
                /\ ret' = [ret EXCEPT
                              !.out = IF Len(paths) > 1
                                      THEN Append(@, Line(i, "header", Clean(paths[i])))
                                      ELSE @,
                              !.entries = <<>>,
                              !.walks = Append(@, paths[i])]
                /\ visited' = <<>>
                /\ lookups' = <<>>
                /\ seen' = "none"
                /\ pc' = "start"
    /\ UNCHANGED <<ctxErr, call, stack, e, fired, result, arg>>

\* What the function literal of collectEntries returns for the entry.
collectFollow == e.Err = NoErr /\ ctxErr = NoErr /\ ~arg.opts.noFollow
collectErr == IF e.Err # NoErr THEN e.Err ELSE ctxErr

\* The function literal of collectEntries, called by walkRecursive, and the
\* rest of the loop body of walkRecursive.
collectEntries ==
    /\ pc = "visit"
    /\ visited' = Append(visited, [e |-> e, follow |-> collectFollow,
                                   err |-> collectErr, pos |-> Position(stack),
                                   looked |-> Len(lookups)])
    /\ afterVisit(Last(stack), collectFollow, collectErr)
    /\ ret' = [ret EXCEPT !.entries = Append(@, e)]
    /\ UNCHANGED <<root, ctxErr, e, lookups, fired, seen, arg>>

\* processPath with a slip: the error of the walk is printed, not returned.
processPathGoesOn ==
    /\ pc = "done"
    /\ ret' = [ret EXCEPT
                  !.out = @ \o printEntries(ret.i, ret.entries, arg.opts)
                            \o (IF ret.i < Len(pathsOf(arg))
                                THEN <<Line(ret.i, "blank", Empty)>> ELSE <<>>),
                  !.i = @ + 1]
    /\ pc' = "run"
    /\ UNCHANGED <<root, ctxErr, call, stack, e, visited, lookups, fired, seen,
                   result, arg>>

\* processPath with a slip: the entries are printed before the error of the
\* walk is looked at.
processPathPrintsFirst ==
    /\ pc = "done"
    /\ IF result # NoErr
       THEN /\ ret' = [ret EXCEPT
                          !.out = @ \o printEntries(ret.i, ret.entries, arg.opts),
                          !.err = IF ctxErr # NoErr
                                  THEN contextError(ctxErr) ELSE result]
            /\ pc' = "exit"
       ELSE /\ ret' = [ret EXCEPT
                          !.out = @ \o printEntries(ret.i, ret.entries, arg.opts)
                                    \o (IF ret.i < Len(pathsOf(arg))
                                        THEN <<Line(ret.i, "blank", Empty)>>
                                        ELSE <<>>),
                          !.i = @ + 1]
            /\ pc' = "run"
    /\ UNCHANGED <<root, ctxErr, call, stack, e, visited, lookups, fired, seen,
                   result, arg>>

\* collectEntries and processPath after walk has returned, and the rest of
\* the loop body of run.
processPath ==
    /\ pc = "done"
    /\ IF result # NoErr
       THEN /\ ret' = [ret EXCEPT !.err = IF ctxErr # NoErr
                                          THEN contextError(ctxErr) ELSE result]
            /\ pc' = "exit"
       ELSE /\ ret' = [ret EXCEPT
                          !.out = @ \o printEntries(ret.i, ret.entries, arg.opts)
                                    \o (IF ret.i < Len(pathsOf(arg))
                                        THEN <<Line(ret.i, "blank", Empty)>>
                                        ELSE <<>>),
                          !.i = @ + 1]
            /\ pc' = "run"
    /\ UNCHANGED <<root, ctxErr, call, stack, e, visited, lookups, fired, seen,
                   result, arg>>

NextRun ==
    \/ run
    \/ walk
    \/ walkRecursive
    \/ makeEntryCheck
    \/ makeEntryLookup
    \/ collectEntries
    \/ processPath
    \/ \E err \in ContextErrors : ctxDone(err)

SpecRun == InitRun /\ [][NextRun]_vars

\* A walk is going on, or has returned to processPath.
InWalk == pc \in {"start", "enter", "makeEntry", "lookup", "visit", "done"}

\* The walks made so far are those of the first n paths, in order.
WalkedInOrder ==
    /\ Len(ret.walks) <= Len(pathsOf(arg))
    /\ ret.walks = SubSeq(pathsOf(arg), 1, Len(ret.walks))
    /\ Len(ret.walks) = (IF pc = "run" THEN ret.i - 1
                         ELSE IF pc = "exit" /\ ret.err = NoErr THEN ret.i - 1
                         ELSE ret.i)
    /\ InWalk => root = pathsOf(arg)[ret.i]

(***************************************************************************)
(* C25, as claimed: when run is given several paths, every path is walked, *)
(* one after another in the order of the arguments, each walk running to   *)
(* completion before the walk of the next path starts, and independently:  *)
(* the outcome of the walk of one path (an error Record, an abort by the   *)
(* visitor) does not change whether the following paths are walked.        *)
(***************************************************************************)
C25_EveryPathIsWalked ==
    /\ WalkedInOrder
    /\ pc = "exit" => ret.walks = pathsOf(arg)

(***************************************************************************)
(* C25, amended: when run is given several paths, they are walked one      *)
(* after another in the order of the arguments, and the walk of a path     *)
(* starts only after the walk of the path before it has visited all its    *)
(* elements, returned nil and had its entries printed; run returns at the  *)
(* first path whose walk returns an error (that of an error Record or of   *)
(* the canceled context): the following paths are not walked and nothing   *)
(* is written for them.  Only when every walk returns nil is every path    *)
(* walked.                                                                 *)
(***************************************************************************)
C25_WalkedUntilFirstError ==
    /\ WalkedInOrder
    /\ (pc = "run" /\ ret.i > 1) =>
           /\ result = NoErr
           /\ visited # <<>>
           /\ AtEnd(Len(visited))
           /\ \A k \in 1..Len(visited) : visited[k].e.Err = NoErr
           /\ \E n \in 1..Len(ret.out) :
                  ret.out[n].i = ret.i - 1 /\ ret.out[n].kind = "entry"
    /\ \A n \in 1..Len(ret.out) : ret.out[n].i <= Len(ret.walks)
    /\ pc = "exit" =>
           IF ret.err = NoErr
           THEN /\ ret.walks = pathsOf(arg)
                /\ ret.i = Len(pathsOf(arg)) + 1
           ELSE /\ result # NoErr
                /\ ret.walks = SubSeq(pathsOf(arg), 1, ret.i)
                /\ ret.err \in {result, contextError(ctxErr)}

\* run was given two paths, the walk of the first ended with the error of a
\* missing file while the context was live, and run returned that error
\* without walking the second path.
C25_Witness ==
    /\ pc = "exit"
    /\ arg.paths = <<p_tmp_a_missing, p_mnt>>
    /\ ctxErr = NoErr
    /\ ret.err = Error("lstat", p_tmp_a_missing, "ENOENT")
    /\ ret.walks = <<p_tmp_a_missing>>
    /\ ret.out = <<Line(1, "header", p_tmp_a_missing)>>

(***************************************************************************)
(* C26: for every element of the nested walk of a relative link target,    *)
(* the path that is looked up (the base joined with the path so far)       *)
(* denotes the file the operating system reaches when it resolves that     *)
(* part of the target from the directory that contains the link, also when *)
(* the target begins with ".." and the directory of the link was reached   *)
(* through a symbolic link: for /bin -> usr/bin and /bin/x -> ../y the     *)
(* nested elements are looked up under /usr and not under /.               *)
(***************************************************************************)
C26_LookupResolvesFromLinkDirectory ==
    \A k \in 1..Len(visited) :
        \A o \in Openers(k, Len(visited[k].pos)) :
            (Len(visited[k].pos) > 1 /\ LookedUp(k)
                 /\ ~IsAbs(visited[o].e.Link)) =>
                Lstat(DestAt(k)) =
                    namei(ParentOf(visited[o]), Components(visited[k].e.Path),
                          FALSE, MaxSymlinks)

(***************************************************************************)
(* Records delivered after the context was canceled.                       *)
(***************************************************************************)
HasFired == fired # NotFired

\* The indices of the Records delivered after the cancellation.
AfterFired == (fired.n + 1)..Len(visited)

\* The Record belongs to a nested walk.
IsNested(v) == Len(v.pos) > 1

(***************************************************************************)
(* C27, as claimed: if the context is canceled at any moment of a running  *)
(* walk, then after that moment fn receives at most one more Record whose  *)
(* error is not the cancellation error, no nested walk delivers a Record,  *)
(* and every later Record carries the cancellation error.                  *)
(***************************************************************************)
C27_NoNestedRecordAfterCancel ==
    HasFired =>
        /\ Cardinality({k \in AfterFired : ~IsCanceledRecord(visited[k])}) <= 1
        /\ \A k \in AfterFired : ~IsNested(visited[k])
        /\ \A k \in AfterFired :
               k > fired.n + 1 => IsCanceledRecord(visited[k])

(***************************************************************************)
(* C27, amended: if the context is canceled at any moment of a running     *)
(* walk, then after that moment fn receives at most one more Record whose  *)
(* error is not the cancellation error, the one whose lookup had passed    *)
(* the cancellation check of makeEntry; every later Record carries the     *)
(* cancellation error and no path is looked up for it; and no nested walk  *)
(* is started.  A nested walk that was running at that moment still        *)
(* delivers Records: the one in flight and, while fn returns nil, a        *)
(* cancellation Record for each of its remaining elements.                 *)
(***************************************************************************)
C27_NoNestedWalkStartsAfterCancel ==
    HasFired =>
        /\ \A k \in AfterFired :
               ~IsCanceledRecord(visited[k]) =>
                   (k = fired.n + 1 /\ fired.pc \in {"lookup", "visit"})
        /\ \A k \in AfterFired :
               k > fired.n + 1 =>
                   /\ visited[k].e.Err = ctxErr
                   /\ IsCanceledRecord(visited[k])
                   /\ ~LookedUp(k)
        /\ \A k \in AfterFired :
               k < Len(visited) =>
                   Len(visited[k + 1].pos) <= Len(visited[k].pos)
        /\ fired.pc = "enter" => (Len(visited) = fired.n /\ pc \in {"enter", "done"})

\* The context was canceled during the lookup of an element of a nested
\* walk: fn received the Record in flight, answered nil, and then received
\* a cancellation Record of the same nested walk and one of the outer walk.
C27_Witness ==
    /\ fired.pc = "lookup"
    /\ Len(visited) >= fired.n + 3
    /\ LET v == visited[fired.n + 1]
           w == visited[fired.n + 2]
           x == visited[fired.n + 3]
       IN  /\ IsNested(v)
           /\ ~IsCanceledRecord(v)
           /\ v.err = NoErr
           /\ IsNested(w)
           /\ IsCanceledRecord(w)
           /\ ~IsNested(x)
           /\ IsCanceledRecord(x)

(***************************************************************************)
(* The walk as a running program.  walk is one sequential call: each of    *)
(* its steps is taken once it is enabled, given that the filesystem calls  *)
(* and fn return.  The visitor is either any visitor or the one of         *)
(* TestWalkCircularSymlink below its maxDepth, which always answers follow *)
(* and nil.  The depth bound of the model holds back only a nested walk    *)
(* that would really start: after a cancellation none does.                *)
(***************************************************************************)
Visitors == {"any", "followAll"}

InitLive ==
    /\ root \in RootPaths
    /\ ctxErr = NoErr
    /\ pc = "start"
    /\ call = NoCall
    /\ stack = <<>>
    /\ e = entry
    /\ visited = <<>>
    /\ lookups = <<>>
    /\ fired = NotFired
    /\ seen = "none"
    /\ result = NoErr
    /\ arg \in [fn : Visitors]
    /\ ret = <<>>

\* fn(ctx, e) of the visitor arg.fn, and the rest of the loop body.
callFn(follow, err) ==
    /\ pc = "visit"
    /\ arg.fn = "followAll" => (follow /\ err = NoErr)
    /\ (follow /\ err = NoErr /\ e.Link # Empty /\ ctxErr = NoErr) =>
           e.Level < MaxLevel
    /\ err \in VisitorErrors(e)
    /\ visited' = Append(visited, [e |-> e, follow |-> follow, err |-> err,
                                   pos |-> Position(stack),
                                   looked |-> Len(lookups)])
    /\ afterVisit(Last(stack), follow, err)
    /\ UNCHANGED <<root, ctxErr, e, lookups, fired, seen, arg, ret>>

\* A step of the goroutine that runs walk.
Step ==
    \/ walk
    \/ walkRecursive
    \/ makeEntryCheck
    \/ makeEntryLookup
    \/ \E follow \in BOOLEAN, err \in {NoErr, VisitorErr} \cup {e.Err} :
           callFn(follow, err)

NextLive ==
    \/ Step
    \/ \E err \in ContextErrors : Cancel(err)

\* Step can be taken: walk has not returned, and the depth bound of the
\* model does not hold back the only answer of the visitor.
CanStep ==
    /\ pc # "done"
    /\ (pc = "visit" /\ arg.fn = "followAll" /\ e.Link # Empty /\ ctxErr = NoErr)
           => e.Level < MaxLevel

PcValues == {"start", "enter", "makeEntry", "lookup", "visit", "done"}

\* Step as the program counter shows it: every step of the goroutine moves
\* pc, and a cancellation does not.
Advance == CanStep /\ pc' \in PcValues \ {pc}

\* The goroutine that runs walk is scheduled as long as it can take a step.
SpecLive == InitLive /\ [][NextLive]_vars /\ WF_pc(Advance)

\* fn answered follow for a link that was being followed already: one of
\* the links whose targets were being walked is the same file.
CycleFollowed ==
    \E k \in 1..Len(visited) :
        /\ Followed(visited[k])
        /\ \E j \in 2..Len(visited[k].pos) : \E o \in Openers(k, j) :
               FileOf(visited[o]) = FileOf(visited[k])

(***************************************************************************)
(* C28: once the context is canceled, walk returns after finitely many     *)
(* further calls of fn, on every filesystem, the circular chain            *)
(* l1 -> l2 -> l1 included, and for every visitor that returns, the one    *)
(* that always answers follow and nil included.                            *)
(***************************************************************************)
C28_CanceledWalkTerminates == (ctxErr # NoErr) ~> (pc = "done")

\* The walk of the circular chain by the visitor that always follows was
\* canceled after it had gone round the chain, and has returned.
C28_Witness ==
    /\ root = p_tmp_l1
    /\ arg.fn = "followAll"
    /\ CycleFollowed
    /\ HasFired
    /\ pc = "done"
    /\ result \in ContextErrors

(***************************************************************************)
(* C29: without cancellation, and with the visitor that always answers     *)
(* follow and nil, walk returns unless a followed chain of links leads     *)
(* back to a link that is being followed; the walker has no depth ceiling  *)
(* and no set of visited links of its own, so on such a chain it does not  *)
(* return.                                                                 *)
(***************************************************************************)
C29_WalkTerminatesWithoutCycle ==
    /\ (arg.fn = "followAll") =>
           <>(pc = "done" \/ ctxErr # NoErr \/ CycleFollowed)
    /\ []((arg.fn = "followAll" /\ CycleFollowed /\ ctxErr = NoErr) =>
              pc # "done")

\* The visitor that always follows has walked a link to a link, two levels
\* deep, without a cancellation, and walk has returned nil.
C29_Witness ==
    /\ arg.fn = "followAll"
    /\ ctxErr = NoErr
    /\ pc = "done"
    /\ result = NoErr
    /\ ~CycleFollowed
    /\ \E k \in 1..Len(visited) : visited[k].e.Level = 2

(***************************************************************************)
(* What collectEntries hands to processPath.                               *)
(***************************************************************************)
\* The entries are the Records delivered by the walk, in order.
Collected == ret.entries = [k \in 1..Len(visited) |-> visited[k].e]

\* A Record with an error ends the walk: it is the last entry, and its error
\* is what walk returns.
ErrorRecordIsLast ==
    \A k \in 1..Len(ret.entries) :
        ret.entries[k].Err # NoErr =>
            /\ k = Len(ret.entries)
            /\ pc \in {"done", "exit"}
            /\ result = ret.entries[k].Err

\* Links are followed exactly when noFollow is unset, as long as the Record
\* has no error and the context is live.
FollowsUnlessNoFollow ==
    \A k \in 1..Len(visited) :
        IF visited[k].err = NoErr
        THEN visited[k].follow = ~arg.opts.noFollow
        ELSE ~visited[k].follow

\* run has returned an error: nothing but the header was written for the
\* path whose walk failed.
NoLineForFailedPath ==
    (pc = "exit" /\ ret.err # NoErr) =>
        /\ result # NoErr
        /\ \A n \in 1..Len(ret.out) :
               ret.out[n].i = ret.i => ret.out[n].kind = "header"

(***************************************************************************)
(* C30, as claimed: collectEntries returns every Record delivered up to    *)
(* and including the first one with an error, which is the last entry,     *)
(* together with that error, and follows links exactly when noFollow is    *)
(* unset; when collectEntries returns an error, processPath writes no      *)
(* element line for the path and returns that error, as "timeout after     *)
(* <elapsed>" when the deadline was exceeded.                              *)
(***************************************************************************)
C30_ProcessPathReturnsCollectedError ==
    /\ Collected
    /\ ErrorRecordIsLast
    /\ FollowsUnlessNoFollow
    /\ NoLineForFailedPath
    /\ (pc = "exit" /\ ret.err # NoErr) =>
           ret.err = (IF ctxErr = DeadlineExceeded THEN TimeoutAfter ELSE result)

(***************************************************************************)
(* C30, amended: as claimed, but the error processPath returns is that of  *)
(* the context whenever the context is done when collectEntries has        *)
(* returned an error: "timeout after <elapsed>" for a deadline, the        *)
(* cancellation error otherwise, also when the walk had ended with the     *)
(* error of a Record.  Only with a live context does processPath return    *)
(* the error of collectEntries, which is then the error of the last entry. *)
(***************************************************************************)
C30_ProcessPathReturnsContextErrorFirst ==
    /\ Collected
    /\ ErrorRecordIsLast
    /\ FollowsUnlessNoFollow
    /\ NoLineForFailedPath
    /\ (pc \in {"done", "exit"} /\ result # NoErr) =>
           \/ ret.entries # <<>> /\ result = Last(ret.entries).Err
           \/ result = ctxErr /\ result \in ContextErrors
    /\ (pc = "exit" /\ ret.err # NoErr) =>
           IF ctxErr = DeadlineExceeded THEN ret.err = TimeoutAfter
           ELSE IF ctxErr = Canceled THEN ret.err = Canceled
           ELSE /\ ret.err = result
                /\ ret.entries # <<>>
                /\ ret.err = Last(ret.entries).Err

\* The deadline passed during a walk that had followed a link: the last
\* entry is the Record with the error, nothing was printed for the path and
\* run returned the timeout.
C30_Witness ==
    /\ pc = "exit"
    /\ ret.err = TimeoutAfter
    /\ ~arg.opts.noFollow
    /\ Len(ret.entries) >= 2
    /\ Last(ret.entries).Err = DeadlineExceeded
    /\ \E k \in 1..Len(visited) : Followed(visited[k])
    /\ \A n \in 1..Len(ret.out) : ret.out[n].i # ret.i

=============================================================================
